---- MODULE Spec2Model ----
(***************************************************************************)
(* A model of src/main.py: a FastAPI application with four POST endpoints  *)
(* that wrap the webauthn library's generate_*_options and                 *)
(* verify_*_response functions.                                            *)
(*                                                                         *)
(* The application keeps no state of its own between calls: there is no    *)
(* module-level store, the options endpoints return the generated options  *)
(* (with the challenge) to the caller and keep nothing, and the verify     *)
(* endpoints take the expected challenge, the stored public key and the    *)
(* stored sign count from the request body.  The variables below are       *)
(* therefore the callers' positions, the requests in flight and their      *)
(* responses, the clock, what the options endpoints have handed out, what  *)
(* the caller persisted, and a history of the verify outcomes.             *)
(*                                                                         *)
(* The webauthn library is imported (src/main.py:6-24), not part of the    *)
(* source tree.  Its verification steps are modelled after sections 4.4    *)
(* and 4.5 of the specification, as pure functions of the arguments the    *)
(* handlers pass.                                                          *)
(***************************************************************************)
EXTENDS Integers, FiniteSets, Sequences, TLC

\* ------------------------------------------------------------- bounds
\* The clock advances in steps of TickMs milliseconds.
TickMs == 60000
\* Sign counts of the requests range over 0..MaxCount.
MaxCount == 1

\* timeout: int = 60000, the default of both options requests (milliseconds).
timeout == 60000

Callers == {"a", "b"}
Challenges == {"c1", "c2"}
Counts == 0..MaxCount

\* --------------------------------------------------- values on the wire
\* Binary values travel as base64url text in JSON and are raw bytes inside
\* the library.  A value is tagged with its encoding, so that text handed
\* over where bytes are expected is not mistaken for the bytes.
Bytes(v) == [enc |-> "bytes", v |-> v]
Text(v) == [enc |-> "base64url", v |-> v]

base64url_to_bytes(s) == [enc |-> "bytes", v |-> s.v]
bytes_to_base64url(b) == [enc |-> "base64url", v |-> b.v]

\* SHA-256, injective on the few inputs of the model.
SHA256(x) == <<"sha256", x>>

\* Optional[str] = None (pydantic leaves an Optional field without a default
\* at None when the body omits it).
None == "<None>"

RpId == "example.com"
OtherRpId == "evil.example"
Origin == "https://example.com"
OtherOrigin == "https://evil.example"
Key == "K1"
OtherKey == "K2"
CredentialId == "cred1"

VARIABLES
  issued,    \* per challenge value: the ceremony whose options carried it, and the
             \* time left until it expires (expires_at - now), -1 once that is past
  pc,        \* per caller: "idle", "waiting" (request sent) or "done" (response read)
  req,       \* per caller: the request in flight
  resp,      \* per caller: the response
  overlap,   \* per caller: the callers whose call was in flight when this one was sent
  store,     \* the credential record the caller persisted
  accepted,  \* the challenges some verify call has succeeded with
  failed     \* the challenges some verify call has failed with

vars == <<issued, pc, req, resp, overlap, store, accepted, failed>>

NotIssued == [ceremony |-> "none", ttl |-> 0]
NoRequest == [endpoint |-> "none"]
NoResponse == [status |-> 0]
NoCredential == [registered |-> FALSE]

\* ------------------------------------------------ the webauthn library
\* A Python call either returns a value or raises; an exception is carried
\* as a result with ok = FALSE and the exception's text.
NoValue == [none |-> TRUE]
Ok(v) == [ok |-> TRUE, value |-> v, error |-> ""]
Raise(e) == [ok |-> FALSE, value |-> NoValue, error |-> e]

\* Codec (spec 4.1): the client data JSON, its challenge decoded to bytes.
parse_client_data_json(cdj) ==
  [type |-> cdj.type, challenge |-> base64url_to_bytes(cdj.challenge), origin |-> cdj.origin]

\* Signature verifier (spec 4.3): the key must be the COSE key bytes of the
\* key pair that signed authenticator_data || SHA256(client_data_json).
\* Text is not bytes: a base64url string handed over as the key decodes to
\* no COSE key.
verify_signature(public_key, authenticator_data, client_data_json, signature) ==
  /\ public_key.enc = "bytes"
  /\ signature.key = public_key.v
  /\ signature.authenticator_data = authenticator_data
  /\ signature.client_data_hash = SHA256(client_data_json)

\* Counter check (spec 4.5 step 7).
sign_count_ok(new_sign_count, current_sign_count) ==
  (new_sign_count # 0 \/ current_sign_count # 0) => new_sign_count > current_sign_count

\* Presence / verification flags (spec 4.4 step 5, 4.5 step 5).
flags_ok(auth_data, require_user_verification) ==
  auth_data.up /\ (require_user_verification => auth_data.uv)

\* verify_registration_response (spec 4.4, steps 1 to 8).  The challenge step
\* compares the embedded challenge with the expected_challenge argument: the
\* handler passes the expected bytes, and no store.
verify_registration_response(credential, expected_challenge, expected_origin, expected_rp_id, require_user_verification) ==
  LET client_data == parse_client_data_json(credential.clientDataJSON)
      auth_data == credential.attestationObject
  IN  IF client_data.type # "webauthn.create" THEN Raise("TypeMismatch")
      ELSE IF client_data.challenge # expected_challenge THEN Raise("ChallengeMismatch")
      ELSE IF client_data.origin # expected_origin THEN Raise("OriginMismatch")
      ELSE IF expected_rp_id = None THEN Raise("AttributeError")
      ELSE IF auth_data.rp_id_hash # SHA256(expected_rp_id) THEN Raise("RpIdMismatch")
      ELSE IF ~flags_ok(auth_data, require_user_verification)
        THEN Raise("UserVerificationRequired")
      ELSE Ok([credential_id |-> auth_data.credential_id,
               credential_public_key |-> auth_data.credential_public_key,
               sign_count |-> auth_data.sign_count])

\* verify_authentication_response (spec 4.5, steps 1 to 8).
verify_authentication_response(credential, expected_challenge, expected_rp_id, expected_origin, credential_public_key, credential_current_sign_count, require_user_verification) ==
  IF credential.malformed THEN Raise("MalformedJSON")
  ELSE
  LET client_data == parse_client_data_json(credential.clientDataJSON)
      auth_data == credential.authenticatorData
  IN  IF client_data.type # "webauthn.get" THEN Raise("TypeMismatch")
      ELSE IF client_data.challenge # expected_challenge THEN Raise("ChallengeMismatch")
      ELSE IF client_data.origin # expected_origin THEN Raise("OriginMismatch")
      ELSE IF expected_rp_id = None THEN Raise("AttributeError")
      ELSE IF auth_data.rp_id_hash # SHA256(expected_rp_id) THEN Raise("RpIdMismatch")
      ELSE IF ~flags_ok(auth_data, require_user_verification)
        THEN Raise("UserVerificationRequired")
      ELSE IF ~verify_signature(credential_public_key, auth_data,
                                credential.clientDataJSON, credential.signature)
        THEN Raise("SignatureInvalid")
      ELSE IF ~sign_count_ok(auth_data.sign_count, credential_current_sign_count)
        THEN Raise("PossibleCloneDetected")
      ELSE Ok([new_sign_count |-> auth_data.sign_count])

\* RegistrationCredential.parse_raw(json.dumps(credential.credential)).
RegistrationCredential_parse_raw(credential) ==
  IF credential.malformed THEN Raise("MalformedJSON") ELSE Ok(credential)

\* jsonable_encoder: the result as JSON, its bytes as base64url text.
jsonable_encoder(v) ==
  [f \in DOMAIN v |->
     IF f \in {"credential_id", "credential_public_key"} THEN bytes_to_base64url(v[f])
     ELSE v[f]]

\* raise HTTPException(status_code=500, detail={'detail': str(e)})
HTTPException(e) == [status |-> 500, detail |-> e, body |-> NoValue]
Success(body) == [status |-> 200, detail |-> "", body |-> body]

\* ------------------------------------------- authenticator and client
\* What an authenticator returns for a registration ceremony run at `origin`
\* for relying party `rp_id` on challenge c: the credential of the request.
Attestation(c, origin, rp_id, key, sign_count) ==
  [malformed |-> FALSE,
   clientDataJSON |-> [type |-> "webauthn.create", challenge |-> Text(c), origin |-> origin],
   attestationObject |-> [rp_id_hash |-> SHA256(rp_id), up |-> TRUE, uv |-> TRUE,
                          sign_count |-> sign_count,
                          credential_id |-> Bytes(CredentialId),
                          credential_public_key |-> Bytes(key)]]

\* What it returns for an authentication ceremony: the assertion, signed with
\* `key` over the authenticator data and the hash of the client data.
Assertion(c, origin, rp_id, key, sign_count) ==
  LET client_data_json == [type |-> "webauthn.get", challenge |-> Text(c), origin |-> origin]
      authenticator_data == [rp_id_hash |-> SHA256(rp_id), up |-> TRUE, uv |-> TRUE,
                             sign_count |-> sign_count]
  IN  [malformed |-> FALSE,
       clientDataJSON |-> client_data_json,
       authenticatorData |-> authenticator_data,
       signature |-> [key |-> key, authenticator_data |-> authenticator_data,
                      client_data_hash |-> SHA256(client_data_json)]]

\* The ways a request departs from the genuine one: the ceremony ran at another
\* origin or for another relying party, the request names no expected_rp_id,
\* the client data has the other ceremony's type or embeds another challenge
\* than the expected one, the user was not verified, the credential is not
\* well-formed, or another key signed.  A registration request may depart in
\* two ways at once.
RegistrationDeviations ==
  {{}, {"origin"}, {"rp_id_hash"}, {"expected_rp_id"}, {"origin", "expected_rp_id"},
   {"rp_id_hash", "expected_rp_id"}, {"type"}, {"malformed"},
   {"challenge"}, {"uv"}, {"type", "challenge"}, {"type", "uv"}, {"challenge", "origin"},
   {"origin", "rp_id_hash"}, {"rp_id_hash", "uv"}}

\* An assertion may also have been changed after it was signed: the rp_id
\* hash, the flags or the sign counter of its authenticator data.
AuthenticationDeviations ==
  {{}, {"origin"}, {"rp_id_hash"}, {"expected_rp_id"}, {"origin", "expected_rp_id"},
   {"rp_id_hash", "expected_rp_id"}, {"signature"}, {"malformed"},
   {"authenticator_data.rp_id_hash"}, {"authenticator_data.flags"},
   {"authenticator_data.sign_count"}}

\* class RegisterCrendential(BaseModel): the body of POST /register/credential/verify.
RegisterCrendential(c, dev) ==
  LET embedded == IF "challenge" \in dev THEN CHOOSE d \in Challenges : d # c ELSE c
      genuine == Attestation(embedded, IF "origin" \in dev THEN OtherOrigin ELSE Origin,
                             IF "rp_id_hash" \in dev THEN OtherRpId ELSE RpId, Key, 0)
      typed == IF "type" \in dev
                 THEN [genuine EXCEPT !.clientDataJSON.type = "webauthn.get"]
                 ELSE genuine
  IN  [credential |-> [typed EXCEPT !.malformed = ("malformed" \in dev),
                                    !.attestationObject.uv = ("uv" \notin dev)],
       expected_challenge |-> Text(c),
       expected_origin |-> Origin,
       expected_rp_id |-> IF "expected_rp_id" \in dev THEN None ELSE RpId,
       require_user_verification |-> TRUE]

\* class AuthenticationCredential(BaseModel): the body of POST /auth/credential/verify.
\* credential_public_key is a str and credential_current_sign_count an int of
\* the request: the caller sends the key as it has it stored.
AuthenticationCredential(c, dev, sign_count, current_sign_count, public_key) ==
  LET genuine == Assertion(c, IF "origin" \in dev THEN OtherOrigin ELSE Origin,
                           IF "rp_id_hash" \in dev THEN OtherRpId ELSE RpId,
                           IF "signature" \in dev THEN OtherKey ELSE Key, sign_count)
      changed == [genuine.authenticatorData EXCEPT
                    !.rp_id_hash = IF "authenticator_data.rp_id_hash" \in dev
                                     THEN SHA256(OtherRpId) ELSE @,
                    !.uv = IF "authenticator_data.flags" \in dev THEN FALSE ELSE @,
                    !.sign_count = IF "authenticator_data.sign_count" \in dev
                                     THEN @ + 1 ELSE @]
  IN  [credential |-> [genuine EXCEPT !.malformed = ("malformed" \in dev),
                                      !.authenticatorData = changed],
       expected_challenge |-> Text(c),
       expected_origin |-> Origin,
       expected_rp_id |-> IF "expected_rp_id" \in dev THEN None ELSE RpId,
       credential_public_key |-> public_key,
       credential_current_sign_count |-> current_sign_count,
       require_user_verification |-> TRUE]

\* class RegistrationOptions(BaseModel): the body of POST /register/credential.
\* A request that leaves attestation out gets the default of the class, which
\* the trailing comma makes a tuple and not a str.
AttestationNone == [type |-> "str", v |-> "none"]
DefaultAttestation == [type |-> "tuple", v |-> "none"]
RegistrationOptions(attestation) ==
  [rp_id |-> RpId, timeout |-> timeout, attestation |-> attestation]

\* class AuthenticationOptions(BaseModel): the body of POST /auth/credential.
Undecodable == "?"
AuthenticationOptions(credential_id) ==
  [rp_id |-> RpId, timeout |-> timeout, credential_id |-> Text(credential_id)]

IssuedChallenges == {c \in Challenges : issued[c] # NotIssued}
VerifyEndpoints == {"register/credential/verify", "auth/credential/verify"}

\* ----------------------------------------------------------- the state
Init ==
  /\ issued = [c \in Challenges |-> NotIssued]
  /\ pc = [t \in Callers |-> "idle"]
  /\ req = [t \in Callers |-> NoRequest]
  /\ resp = [t \in Callers |-> NoResponse]
  /\ overlap = [t \in Callers |-> {}]
  /\ store = NoCredential
  /\ accepted = {}
  /\ failed = {}

Expired(c) == issued[c].ttl < 0

\* Time passes: every issued challenge comes TickMs closer to its expiry.
Tick ==
  /\ \E c \in IssuedChallenges : ~Expired(c)
  /\ issued' = [c \in Challenges |->
                  IF issued[c] = NotIssued \/ Expired(c) THEN issued[c]
                  ELSE [issued[c] EXCEPT !.ttl = IF @ - TickMs < 0 THEN -1 ELSE @ - TickMs]]
  /\ UNCHANGED <<pc, req, resp, overlap, store, accepted, failed>>

\* A caller sends a request; FastAPI decodes the body and the handler is about
\* to run on a worker thread.  `plain` marks the request of an uneventful
\* ceremony: nothing departs from the genuine request, and the counts are the
\* stored one and its successor.  Calls in flight together are plain ones; any
\* other request is sent when no call is in flight, or to repeat the request
\* of a call that has been answered.
Post(t, endpoint, dev, plain, body) ==
  /\ pc[t] = "idle"
  /\ \/ \A w \in Callers \ {t} : pc[w] = "idle"
     \/ plain /\ \A w \in Callers \ {t} : pc[w] # "idle" => req[w].plain
     \/ \A w \in Callers \ {t} :
          pc[w] # "idle" => pc[w] = "done" /\ req[w].endpoint = endpoint /\ req[w].body = body
  /\ pc' = [pc EXCEPT ![t] = "waiting"]
  /\ req' = [req EXCEPT ![t] = [endpoint |-> endpoint, dev |-> dev, plain |-> plain,
                                  body |-> body]]
  /\ overlap' = [u \in Callers |->
                   IF u = t THEN {w \in Callers \ {t} : pc[w] = "waiting"}
                            ELSE overlap[u] \ {t}]
  /\ UNCHANGED <<issued, resp, store, accepted, failed>>

\* The options requests; the random challenges are drawn from Challenges, so
\* one is sent while a value is left to draw for it.
OptionsEndpoints == {"register/credential", "auth/credential"}
ChallengeLeft ==
  Cardinality({c \in Challenges : issued[c] = NotIssued})
    > Cardinality({w \in Callers : pc[w] = "waiting" /\ req[w].endpoint \in OptionsEndpoints})

PostRegistrationOptions(t) ==
  /\ ChallengeLeft
  /\ \E attestation \in {AttestationNone, DefaultAttestation} :
       Post(t, "register/credential", {}, attestation = AttestationNone,
            RegistrationOptions(attestation))

PostAuthenticationOptions(t) ==
  /\ ChallengeLeft
  /\ \E credential_id \in {CredentialId, Undecodable} :
       Post(t, "auth/credential", {}, credential_id = CredentialId,
            AuthenticationOptions(credential_id))

PostRegistrationVerify(t) ==
  \E c \in IssuedChallenges, dev \in RegistrationDeviations :
    Post(t, "register/credential/verify", dev, dev = {}, RegisterCrendential(c, dev))

\* The sign counts of a genuine request range over Counts; a request that
\* departs from the genuine one reports a count one above the stored one.
PostAuthenticationVerify(t) ==
  /\ store # NoCredential
  /\ \E c \in IssuedChallenges, dev \in AuthenticationDeviations, n \in Counts, m \in Counts :
       LET fresh == m = store.sign_count /\ n = m + 1
       IN  /\ dev # {} => fresh
           /\ Post(t, "auth/credential/verify", dev, dev = {} /\ fresh,
                   AuthenticationCredential(c, dev, n, m, store.credential_public_key))

\* An options handler has produced `response` for caller t.  The handler
\* returns the options, with the challenge and the timeout, and keeps nothing:
\* `issued` records what the caller was handed.
OptionsRespond(t, ceremony, response) ==
  /\ pc' = [pc EXCEPT ![t] = "done"]
  /\ resp' = [resp EXCEPT ![t] = response]
  /\ issued' = IF response.status = 200
                 THEN [issued EXCEPT ![response.body.challenge.v] =
                         [ceremony |-> ceremony, ttl |-> response.body.timeout]]
                 ELSE issued
  /\ UNCHANGED <<req, overlap, store, accepted, failed>>

\* What the handler makes of the library's result: the encoded result, or
\* HTTP 500 with the text of the exception.
OptionsResponse(options) ==
  IF options.ok THEN Success(options.value) ELSE HTTPException(options.error)

\* POST /register/credential.  generate_registration_options draws a fresh
\* random challenge.  Given the tuple default for attestation, the library
\* either rejects the value or passes it on.
create_registration_credential_options(t) ==
  /\ pc[t] = "waiting"
  /\ req[t].endpoint = "register/credential"
  /\ \E c \in Challenges, raises \in BOOLEAN :
       /\ issued[c] = NotIssued
       /\ raises => req[t].body.attestation = DefaultAttestation
       /\ LET options == req[t].body
              registration_options ==
                IF raises THEN Raise("ValidationError")
                ELSE Ok([challenge |-> bytes_to_base64url(Bytes(c)),
                         rp_id |-> options.rp_id, timeout |-> options.timeout,
                         attestation |-> options.attestation])
          IN  OptionsRespond(t, "registration", OptionsResponse(registration_options))

\* POST /auth/credential.  base64url_to_bytes(options.credential_id) raises on
\* text that is not base64url.
create_authentication_options(t) ==
  /\ pc[t] = "waiting"
  /\ req[t].endpoint = "auth/credential"
  /\ \E c \in Challenges :
       /\ issued[c] = NotIssued
       /\ LET options == req[t].body
              authentication_options ==
                IF options.credential_id.v = Undecodable THEN Raise("binascii.Error")
                ELSE Ok([challenge |-> bytes_to_base64url(Bytes(c)),
                         rp_id |-> options.rp_id, timeout |-> options.timeout,
                         allow_credentials |-> {base64url_to_bytes(options.credential_id)}])
          IN  OptionsRespond(t, "authentication", OptionsResponse(authentication_options))

\* The challenge a verify request presents.
Presented(r) == r.body.expected_challenge.v

\* The handler has produced `response` for caller t.
Respond(t, response) ==
  /\ pc' = [pc EXCEPT ![t] = "done"]
  /\ resp' = [resp EXCEPT ![t] = response]
  /\ accepted' = IF response.status = 200 THEN accepted \cup {Presented(req[t])} ELSE accepted
  /\ failed' = IF response.status = 200 THEN failed ELSE failed \cup {Presented(req[t])}
  /\ UNCHANGED <<issued, req, overlap, store>>

\* A handler that takes the expected origin from the client data it is to check.
RegistrationResponse_TrustsClientOrigin(credential) ==
  LET parsed == RegistrationCredential_parse_raw(credential.credential)
      registration_verification ==
        IF ~parsed.ok THEN parsed
        ELSE verify_registration_response(
               parsed.value,
               base64url_to_bytes(credential.expected_challenge),
               credential.credential.clientDataJSON.origin,
               credential.expected_rp_id,
               credential.require_user_verification)
  IN  IF registration_verification.ok
        THEN Success(jsonable_encoder(registration_verification.value))
        ELSE HTTPException(registration_verification.error)

\* A handler that answers an exception with what the credential attests.
RegistrationResponse_PartialResult(credential) ==
  LET parsed == RegistrationCredential_parse_raw(credential.credential)
      registration_verification ==
        IF ~parsed.ok THEN parsed
        ELSE verify_registration_response(
               parsed.value,
               base64url_to_bytes(credential.expected_challenge),
               credential.expected_origin,
               credential.expected_rp_id,
               credential.require_user_verification)
      attested == credential.credential.attestationObject
  IN  IF registration_verification.ok
        THEN Success(jsonable_encoder(registration_verification.value))
        ELSE Success(jsonable_encoder(
               [credential_id |-> attested.credential_id,
                credential_public_key |-> attested.credential_public_key,
                sign_count |-> attested.sign_count]))

\* A handler that keeps the challenges it has accepted and refuses them.
RegistrationResponse_ConsumesChallenge(credential) ==
  LET parsed == RegistrationCredential_parse_raw(credential.credential)
      registration_verification ==
        IF ~parsed.ok THEN parsed
        ELSE IF credential.expected_challenge.v \in accepted THEN Raise("AlreadyConsumed")
        ELSE verify_registration_response(
               parsed.value,
               base64url_to_bytes(credential.expected_challenge),
               credential.expected_origin,
               credential.expected_rp_id,
               credential.require_user_verification)
  IN  IF registration_verification.ok
        THEN Success(jsonable_encoder(registration_verification.value))
        ELSE HTTPException(registration_verification.error)

\* A handler that compares the origin itself before it calls the library.
RegistrationResponse_OriginFirst(credential) ==
  LET parsed == RegistrationCredential_parse_raw(credential.credential)
      registration_verification ==
        IF ~parsed.ok THEN parsed
        ELSE IF credential.credential.clientDataJSON.origin # credential.expected_origin
          THEN Raise("OriginMismatch")
        ELSE verify_registration_response(
               parsed.value,
               base64url_to_bytes(credential.expected_challenge),
               credential.expected_origin,
               credential.expected_rp_id,
               credential.require_user_verification)
  IN  IF registration_verification.ok
        THEN Success(jsonable_encoder(registration_verification.value))
        ELSE HTTPException(registration_verification.error)

\* POST /register/credential/verify
RegistrationResponse(credential) ==
  LET parsed == RegistrationCredential_parse_raw(credential.credential)
      registration_verification ==
        IF ~parsed.ok THEN parsed
        ELSE verify_registration_response(
               parsed.value,
               base64url_to_bytes(credential.expected_challenge),
               credential.expected_origin,
               credential.expected_rp_id,
               credential.require_user_verification)
  IN  IF registration_verification.ok
        THEN Success(jsonable_encoder(registration_verification.value))
        ELSE HTTPException(registration_verification.error)

\* A handler that refuses to verify while another call is in flight.
verify_registration_credential_Serialized(t) ==
  /\ pc[t] = "waiting"
  /\ req[t].endpoint = "register/credential/verify"
  /\ Respond(t, IF \E w \in Callers \ {t} : pc[w] = "waiting"
                  THEN HTTPException("Busy")
                  ELSE RegistrationResponse(req[t].body))

verify_registration_credential(t) ==
  /\ pc[t] = "waiting"
  /\ req[t].endpoint = "register/credential/verify"
  /\ Respond(t, RegistrationResponse(req[t].body))

\* A handler that answers an exception of the library with a success that
\* carries the sign count the assertion reports.
AuthenticationResponse_FailsOpen(credential) ==
  LET authentication_verification ==
        verify_authentication_response(
          credential.credential,
          base64url_to_bytes(credential.expected_challenge),
          credential.expected_rp_id,
          credential.expected_origin,
          credential.credential_public_key,
          credential.credential_current_sign_count,
          credential.require_user_verification)
  IN  IF authentication_verification.ok
        THEN Success(jsonable_encoder(authentication_verification.value))
        ELSE Success([new_sign_count |-> credential.credential.authenticatorData.sign_count])

\* POST /auth/credential/verify
AuthenticationResponse(credential) ==
  LET authentication_verification ==
        verify_authentication_response(
          credential.credential,
          base64url_to_bytes(credential.expected_challenge),
          credential.expected_rp_id,
          credential.expected_origin,
          credential.credential_public_key,
          credential.credential_current_sign_count,
          credential.require_user_verification)
  IN  IF authentication_verification.ok
        THEN Success(jsonable_encoder(authentication_verification.value))
        ELSE HTTPException(authentication_verification.error)

verify_authentication_credential(t) ==
  /\ pc[t] = "waiting"
  /\ req[t].endpoint = "auth/credential/verify"
  /\ Respond(t, AuthenticationResponse(req[t].body))

\* The caller reads the response and persists what a success returned: the
\* credential of a registration, the new sign count of an authentication.
Collect(t) ==
  /\ pc[t] = "done"
  /\ pc' = [pc EXCEPT ![t] = "idle"]
  /\ req' = [req EXCEPT ![t] = NoRequest]
  /\ resp' = [resp EXCEPT ![t] = NoResponse]
  /\ overlap' = [overlap EXCEPT ![t] = {}]
  /\ store' = IF resp[t].status # 200 \/ req[t].endpoint \notin VerifyEndpoints THEN store
              ELSE IF req[t].endpoint = "register/credential/verify"
                THEN [registered |-> TRUE,
                      credential_id |-> resp[t].body.credential_id,
                      credential_public_key |-> resp[t].body.credential_public_key,
                      sign_count |-> resp[t].body.sign_count]
                ELSE [store EXCEPT !.sign_count = resp[t].body.new_sign_count]
  /\ UNCHANGED <<issued, accepted, failed>>

Next ==
  \/ Tick
  \/ \E t \in Callers : PostRegistrationOptions(t)
  \/ \E t \in Callers : PostAuthenticationOptions(t)
  \/ \E t \in Callers : create_registration_credential_options(t)
  \/ \E t \in Callers : create_authentication_options(t)
  \/ \E t \in Callers : PostRegistrationVerify(t)
  \/ \E t \in Callers : PostAuthenticationVerify(t)
  \/ \E t \in Callers : verify_registration_credential(t)
  \/ \E t \in Callers : verify_authentication_credential(t)
  \/ \E t \in Callers : Collect(t)

Spec == Init /\ [][Next]_vars

\* ------------------------------------------------------------- claims
IsRegistration(t) == req[t].endpoint = "register/credential/verify"
IsAuthentication(t) == req[t].endpoint = "auth/credential/verify"
\* Caller t has the answer of a verify call.
Done(t) == pc[t] = "done" /\ req[t].endpoint \in VerifyEndpoints
\* The step in which a verify handler answers caller t.
Answers(t) == pc[t] = "waiting" /\ pc'[t] = "done" /\ req[t].endpoint \in VerifyEndpoints
Rejected(t, kind) == resp[t].status # 200 /\ resp[t].detail = kind

\* C1: a challenge is consumed at most once: a verify call that presents a
\* challenge some earlier call succeeded with does not succeed, and fails with
\* AlreadyConsumed when the request is otherwise the genuine one.
C1_ConsumedAtMostOnce ==
  [][\A t \in Callers :
       (Answers(t) /\ Presented(req[t]) \in accepted)
         => /\ resp'[t].status # 200
            /\ req[t].dev = {} => resp'[t].detail = "AlreadyConsumed"]_vars

\* C2: of two callers that present the same challenge concurrently, exactly
\* one succeeds and the other receives AlreadyConsumed.
C2_ConcurrentExactlyOne ==
  \A t \in Callers, w \in Callers :
    (t # w /\ Done(t) /\ Done(w) /\ w \in overlap[t]
       /\ Presented(req[t]) = Presented(req[w]))
      => \/ resp[t].status = 200 /\ Rejected(w, "AlreadyConsumed")
         \/ resp[w].status = 200 /\ Rejected(t, "AlreadyConsumed")

\* The sign count an assertion reports, and the stored one the request carries.
Reported(t) == req[t].body.credential.authenticatorData.sign_count
Current(t) == req[t].body.credential_current_sign_count

\* C3: an otherwise valid assertion that reports a sign count not above the
\* stored one, with counters in use, is rejected with PossibleCloneDetected.
C3_CloneDetected ==
  \A t \in Callers :
    (Done(t) /\ IsAuthentication(t) /\ req[t].dev = {}
       /\ Reported(t) <= Current(t) /\ (Current(t) # 0 \/ Reported(t) # 0))
      => Rejected(t, "PossibleCloneDetected")

\* C4: after a successful registration, an authentication with the credential
\* as registration returned it (public key and sign count) and a correctly
\* signed assertion for an unexpired authentication challenge succeeds.
C4_RegisterThenAuthenticate ==
  \A t \in Callers :
    (Done(t) /\ IsAuthentication(t) /\ req[t].plain /\ store # NoCredential
       /\ req[t].body.credential_public_key = store.credential_public_key
       /\ Current(t) = store.sign_count
       /\ issued[Presented(req[t])].ceremony = "authentication"
       /\ ~Expired(Presented(req[t])))
      => resp[t].status = 200

C7_FailureNeedsFreshChallenge ==
  [][\A t \in Callers :
       (Answers(t) /\ Presented(req[t]) \in failed) => resp'[t].status # 200]_vars

\* C8: a clone-detection or signature failure is told apart, by the code of
\* the outcome, from the failure the same request gives when its credential
\* is malformed.
C8_DistinctErrorKinds ==
  \A t \in Callers :
    (Done(t) /\ IsAuthentication(t)
       /\ resp[t].detail \in {"PossibleCloneDetected", "SignatureInvalid"})
      => resp[t].status #
           AuthenticationResponse([req[t].body EXCEPT !.credential.malformed = TRUE]).status

\* C9: a verify call that presents a challenge issued for the other ceremony
\* does not succeed, and fails with WrongType when the request is otherwise
\* the genuine one.
C9_CeremonyBound ==
  \A t \in Callers :
    (Done(t) /\ issued[Presented(req[t])].ceremony #
                  (IF IsRegistration(t) THEN "registration" ELSE "authentication"))
      => /\ resp[t].status # 200
         /\ req[t].dev = {} => resp[t].detail = "WrongType"

\* C10: a verify call that presents a challenge past its expires_at does not
\* succeed, and fails with Expired when the request is otherwise the genuine
\* one.
C10_ExpiryEnforced ==
  [][\A t \in Callers :
       (Answers(t) /\ Expired(Presented(req[t])))
         => /\ resp'[t].status # 200
            /\ req[t].dev = {} => resp'[t].detail = "Expired"]_vars

\* The external error codes of the specification's error taxonomy (section 7,
\* and TypeMismatch of 4.4).
ExternalErrorCodes ==
  {"MalformedJSON", "Truncated", "BadFlagLayout", "BadKeyStructure",
   "NotFound", "Expired", "WrongType", "AlreadyConsumed",
   "UnsupportedAlgorithm", "SignatureInvalid",
   "TypeMismatch", "OriginMismatch", "RpIdMismatch", "UserVerificationRequired",
   "PossibleCloneDetected", "StoreUnavailable", "DuplicateCredentialId"}

\* C11: every error outcome of the four endpoints carries one of the external
\* error codes, and never the text of the exception that caused it.
C11_OnlyExternalCodes ==
  \A t \in Callers :
    (pc[t] = "done" /\ resp[t].status # 200) => resp[t].detail \in ExternalErrorCodes

\* The changes made to an assertion after it was signed.
Tampered(t, part) == Done(t) /\ IsAuthentication(t) /\ req[t].dev = {part}

Alone(r) ==
  IF r.endpoint = "register/credential/verify" THEN RegistrationResponse(r.body)
  ELSE AuthenticationResponse(r.body)

\* Two verify calls that were in flight together, for distinct challenges.
Concurrent(t, w) ==
  /\ t # w /\ Done(t) /\ Done(w)
  /\ w \in overlap[t]
  /\ Presented(req[t]) # Presented(req[w])

PresentsRegistered(t) ==
  /\ IsRegistration(t) /\ req[t].dev = {}
  /\ store # NoCredential
  /\ store.credential_id =
       bytes_to_base64url(req[t].body.credential.attestationObject.credential_id)

\* The step in which caller t reads the answer of its call.
Reads(t) == pc[t] = "done" /\ pc'[t] = "idle"

\* C14: the stored credential record changes only with a successful
\* authentication: reading a failed authentication's answer leaves it as it
\* is, and a registration that presents the registered credential_id is
\* answered DuplicateCredentialId and leaves it as it is.
C14_RecordChangedOnlyByAuthentication ==
  [][\A t \in Callers :
       /\ (Reads(t) /\ IsAuthentication(t) /\ resp[t].status # 200) => store' = store
       /\ (Answers(t) /\ PresentsRegistered(t))
            => resp'[t].status # 200 /\ resp'[t].detail = "DuplicateCredentialId"
       /\ (Reads(t) /\ PresentsRegistered(t)) => store' = store]_vars

\* C15: with the stored sign count 0 and an assertion that reports 0, an
\* otherwise valid authentication with the registered key succeeds, with new
\* sign count 0.
C15_CounterlessAccepted ==
  \A t \in Callers :
    (Done(t) /\ IsAuthentication(t) /\ req[t].dev = {}
       /\ Reported(t) = 0 /\ Current(t) = 0
       /\ store # NoCredential
       /\ req[t].body.credential_public_key = store.credential_public_key)
      => resp[t].status = 200 /\ resp[t].body.new_sign_count = 0

\* The error of the earliest failing step, in the order type, challenge,
\* origin, RP id, user verification; none when no step fails.
FirstFailure(dev) ==
  IF "type" \in dev THEN "TypeMismatch"
  ELSE IF "challenge" \in dev THEN "ChallengeMismatch"
  ELSE IF "origin" \in dev THEN "OriginMismatch"
  ELSE IF "rp_id_hash" \in dev THEN "RpIdMismatch"
  ELSE IF "uv" \in dev THEN "UserVerificationRequired"
  ELSE ""

SameRequest(t, w) ==
  /\ t # w
  /\ req[t].endpoint \in VerifyEndpoints
  /\ req[w].endpoint = req[t].endpoint
  /\ req[w].body = req[t].body

Steps(r) ==
  IF r.endpoint = "register/credential/verify"
    THEN LET parsed == RegistrationCredential_parse_raw(r.body.credential)
         IN  IF ~parsed.ok THEN parsed
             ELSE verify_registration_response(
                    parsed.value, base64url_to_bytes(r.body.expected_challenge),
                    r.body.expected_origin, r.body.expected_rp_id,
                    r.body.require_user_verification)
    ELSE verify_authentication_response(
           r.body.credential, base64url_to_bytes(r.body.expected_challenge),
           r.body.expected_rp_id, r.body.expected_origin, r.body.credential_public_key,
           r.body.credential_current_sign_count, r.body.require_user_verification)

\* C18: an endpoint answers 200 with the encoded result when every step inside
\* it completed, and HTTP 500 with no payload when a step raised; an options
\* call that raised has handed out no challenge.
C18_FailClosed ==
  \A t \in Callers :
    pc[t] = "done" =>
      /\ resp[t].status \in {200, 500}
      /\ resp[t].status = 500 => resp[t].body = NoValue
      /\ req[t].endpoint \in VerifyEndpoints =>
           /\ resp[t].status = 200 <=> Steps(req[t]).ok
           /\ Steps(req[t]).ok => resp[t].body = jsonable_encoder(Steps(req[t]).value)
      /\ req[t].endpoint = "auth/credential" =>
           (resp[t].status = 200 <=> req[t].body.credential_id.v # Undecodable)
      /\ (req[t].endpoint = "register/credential" /\ req[t].body.attestation = AttestationNone)
           => resp[t].status = 200
      /\ (req[t].endpoint \in OptionsEndpoints /\ resp[t].status = 200)
           => issued[resp[t].body.challenge.v] # NotIssued

\* A registration whose credential does not decode has been answered HTTP
\* 500, with the text of the exception and no payload.
C18_Witness ==
  \E t \in Callers :
    /\ Done(t) /\ IsRegistration(t) /\ req[t].dev = {"malformed"}
    /\ ~Steps(req[t]).ok
    /\ resp[t].status = 500 /\ resp[t].body = NoValue
    /\ resp[t].detail = "MalformedJSON"

====
